---- MODULE Spec2Model ----
(***************************************************************************)
(* Token and session lifecycle of the d4z authentication service.          *)
(*                                                                         *)
(* The store is the two tables of the ORM (user, session).  Every handler  *)
(* is a sequence of steps; one step is one awaited store operation         *)
(* together with the synchronous code that follows it, so requests         *)
(* interleave exactly where the event loop can switch between them.        *)
(* A request keeps the row objects it has read (stale copies) and writes   *)
(* back only the columns named in update_fields.                           *)
(*                                                                         *)
(* Time is a discrete clock; one tick is one unit of the TTL settings and  *)
(* also the resolution of the JWT "exp" claim (whole seconds in PyJWT):    *)
(* two tokens minted for the same user within one tick are the same        *)
(* string.                                                                 *)
(***************************************************************************)
EXTENDS Integers, Sequences, FiniteSets, TLC

\* ------------------------------------------------------------------ bounds
\* Last value of the clock, and the number of requests a behaviour starts.
MaxTime == 3
MaxStarts == 2

\* Two request slots: every race in the handlers is between two requests.
Requests == {"r1", "r2"}

\* ------------------------------------------------------ program constants
\* TTL settings, in clock ticks (the source's values are minutes / hours).
ACCESS_TOKEN_EXPIRE_MINUTES == 1
REFRESH_TOKEN_EXPIRE_MINUTES == 2
EMAIL_VERIFICATION_TOKEN_EXPIRE_HOURS == 1

\* NULL of the nullable token / expiry columns.
NoToken == 0
NoExpiry == -1

Usernames == {"alice", "bob", "carol"}
Passwords == {"pw1", "pw2"}

\* ------------------------------------------------------------ data model
\* models/users.py: one row of the user table.  full_name and is_superuser
\* are stored but read by no operation of the lifecycle and are left out.
UserRow(id, username, email, hashed, active, verified, vtok, vexp, rtok, rexp) ==
    [id |-> id, username |-> username, email |-> email,
     hashed_password |-> hashed,
     is_active |-> active, is_email_verified |-> verified,
     email_verification_token |-> vtok,
     email_verification_token_expires_at |-> vexp,
     password_reset_token |-> rtok,
     password_reset_token_expires_at |-> rexp]

\* models/session.py: one row of the session table (created_at is written
\* once and never read).
SessionRow(id, user_id, refresh_token, expires_at, active) ==
    [id |-> id, user_id |-> user_id, refresh_token |-> refresh_token,
     expires_at |-> expires_at, is_active |-> active]

\* ------------------------------------------------------ credential hasher
\* bcrypt: the hash carries the salt drawn for the call and a digest that
\* only the same plaintext reproduces.
get_password_hash(password, salt) == <<salt, password>>

verify_password(plain_password, hashed_password) ==
    hashed_password[2] = plain_password

\* --------------------------------------------------------- signed tokens
\* The payload of _create_token under a valid HS256 signature.  The token
\* string is a function of the payload, so equal payloads are equal tokens.
_create_token(sub, user_id, token_type, ttl, clock) ==
    [sub |-> sub, user_id |-> user_id, type |-> token_type,
     exp |-> clock + ttl, sig |-> "ok"]

create_access_token(sub, user_id, clock) ==
    _create_token(sub, user_id, "access", ACCESS_TOKEN_EXPIRE_MINUTES, clock)

create_refresh_token(sub, user_id, clock) ==
    _create_token(sub, user_id, "refresh", REFRESH_TOKEN_EXPIRE_MINUTES, clock)

\* A string that is no JWT at all, and the absent token.
Garbage == [sub |-> "", user_id |-> 0, type |-> "", exp |-> 0, sig |-> "malformed"]
NoJwt == [sub |-> "", user_id |-> 0, type |-> "", exp |-> 0, sig |-> "none"]

\* A token whose signature does not verify under SECRET_KEY.
Tampered(tok) == [tok EXCEPT !.sig = "bad"]

\* decode_token: jwt.decode checks structure and signature, then exp
\* (expired when exp <= now); the result is "none" when sub is empty.
decode_token(tok, clock) ==
    IF tok.sig # "ok" THEN "invalid"
    ELSE IF tok.exp <= clock THEN "expired"
    ELSE IF tok.sub = "" THEN "none"
    ELSE "ok"

\* ----------------------------------------------------------------- state
VARIABLES
    users,          \* the user table: a set of UserRow
    sessions,       \* the session table: a set of SessionRow
    nextUserId,     \* SERIAL of user.id
    nextSessionId,  \* SERIAL of session.id
    nextToken,      \* the next value secrets.token_urlsafe draws
    now,            \* datetime.now(timezone.utc)
    req,            \* per request slot: the handler's position and locals
    last,           \* the request that completed last, with its response
    issued,         \* the JWTs handed to clients in 200 responses
    started,        \* requests started so far
    rotated,        \* refresh tokens a completed Refresh has rotated out
    loggedOut,      \* refresh tokens a completed Logout has deactivated
    parent,         \* <<new, presented>> refresh tokens of completed Refreshes
    refused,        \* refresh tokens a Refresh has answered "User is inactive"
    resent,         \* <<previous, new>> verification tokens of saved resends
    aborted         \* ids of the users whose Login or Refresh was cut off

store == <<users, sessions, nextUserId, nextSessionId, nextToken>>
history == <<issued, rotated, loggedOut, parent, refused, resent, aborted>>
vars == <<users, sessions, nextUserId, nextSessionId, nextToken, now, req,
          last, issued, started, rotated, loggedOut, parent, refused,
          resent, aborted>>

\* The one element of a lookup result (get_or_none on a unique column).
TheOne(S) == CHOOSE x \in S : TRUE

\* A request slot that runs nothing.
Idle ==
    [op |-> "idle", pc |-> "idle", jwt |-> NoJwt, etok |-> NoToken,
     name |-> "", pw |-> "", user |-> {}, sess |-> {}, fields |-> {},
     access |-> NoJwt, refresh |-> NoJwt, pending |-> "",
     code |-> 0, detail |-> "", after |-> {}, bearer |-> NoJwt]

\* The handler has raised: the exception handlers turn it into code/message.
Fail(q, code, detail) ==
    [q EXCEPT !.pc = "done", !.code = code, !.detail = detail,
              !.user = {}, !.sess = {}, !.fields = {}, !.pending = "",
              !.access = NoJwt, !.refresh = NoJwt]

\* The handler has returned a BaseResponse (success = true).
Succeed(q, detail) ==
    [q EXCEPT !.pc = "done", !.code = 200, !.detail = detail,
              !.sess = {}, !.fields = {}, !.pending = ""]

\* A service method without a route has returned value to its caller.
Returned(q, value) ==
    [q EXCEPT !.pc = "done", !.code = 0, !.detail = value,
              !.fields = {}, !.pending = ""]

CanStart(r) == req[r].pc = "idle" /\ started < MaxStarts

\* A step leaves request r at q; a completed request hands its response over
\* and frees the slot.
Step(r, q) ==
    IF q.pc = "done"
        THEN /\ req' = [req EXCEPT ![r] = Idle]
             /\ last' = q
        ELSE /\ req' = [req EXCEPT ![r] = q]
             /\ UNCHANGED last

Begin(op) == [Idle EXCEPT !.op = op]

\* ----------------------------------------------------------- store reads
get_user_by_id(user_id) == {u \in users : u.id = user_id}

get_user_by_username(username) == {u \in users : u.username = username}

get_user_by_email(email) == {u \in users : u.email = email}

get_user_session_by_token(refresh_token_value) ==
    {s \in sessions : s.refresh_token = refresh_token_value}

\* ---------------------------------------------------------- store writes
\* Model.save(update_fields=...): UPDATE ... WHERE id = row.id of the named
\* columns only, from the request's copy of the row; no row, no effect.
SaveUser(row, update_fields) ==
    {IF u.id = row.id
        THEN [f \in DOMAIN u |-> IF f \in update_fields THEN row[f] ELSE u[f]]
        ELSE u : u \in users}

\* A save that writes the named columns to every row of the table.
SaveSessionEveryRow(row, update_fields) ==
    {[f \in DOMAIN s |-> IF f \in update_fields THEN row[f] ELSE s[f]]
        : s \in sessions}

SaveSession(row, update_fields) ==
    {IF s.id = row.id
        THEN [f \in DOMAIN s |-> IF f \in update_fields THEN row[f] ELSE s[f]]
        ELSE s : s \in sessions}

\* A deactivation that writes nothing.
DeactivateWritesNothing(user_session) == sessions

\* A deactivation that flips the stored flag.
DeactivateToggles(user_session) ==
    {IF s.id = user_session.id THEN [s EXCEPT !.is_active = ~s.is_active]
                               ELSE s : s \in sessions}

\* A deactivation that assigns True instead of False.
DeactivateSetsActive(user_session) ==
    SaveSession([user_session EXCEPT !.is_active = TRUE], {"is_active"})

\* deactivate_user_session: decides on the copy it is given, writes is_active.
deactivate_user_session(user_session) ==
    IF user_session.is_active
        THEN SaveSession([user_session EXCEPT !.is_active = FALSE], {"is_active"})
        ELSE sessions

\* Session.create: the unique index on refresh_token and the foreign key to
\* user.id reject the insert (IntegrityError).
SessionInsertRejected(row) ==
    \/ \E s \in sessions : s.refresh_token = row.refresh_token
    \/ get_user_by_id(row.user_id) = {}

\* --------------------------------------------------------------- Init
\* The store after alice has registered, verified her address and logged in
\* at time 0 (session 1 holds the refresh token of that login), and bob has
\* registered at time 0 and holds verification token 1.
Init ==
    /\ users = {
         UserRow(1, "alice", "alice@x.com", get_password_hash("pw1", 1),
                 TRUE, TRUE, NoToken, NoExpiry, NoToken, NoExpiry),
         UserRow(2, "bob", "bob@x.com", get_password_hash("pw1", 1),
                 FALSE, FALSE, 1, EMAIL_VERIFICATION_TOKEN_EXPIRE_HOURS,
                 NoToken, NoExpiry)}
    /\ sessions = {SessionRow(1, 1, create_refresh_token("alice", 1, 0),
                              REFRESH_TOKEN_EXPIRE_MINUTES, TRUE)}
    /\ nextUserId = 3
    /\ nextSessionId = 2
    /\ nextToken = 2
    /\ now = 0
    /\ req = [r \in Requests |-> Idle]
    /\ last = Idle
    /\ issued = {create_access_token("alice", 1, 0),
                 create_refresh_token("alice", 1, 0)}
    /\ started = 0
    /\ rotated = {}
    /\ loggedOut = {}
    /\ parent = {}
    /\ refused = {}
    /\ resent = {}
    /\ aborted = {}

\* The clock advances between any two steps.
Tick ==
    /\ now < MaxTime
    /\ now' = now + 1
    /\ UNCHANGED <<store, req, last, history, started>>

\* ------------------------------------------------------------- Login
\* A login that tests is_active before the password.
LoginErrorActiveFirst(found, password) ==
    IF found # {} /\ ~TheOne(found).is_active
        THEN "Account not active. Please verify your email address first."
    ELSE IF found = {} \/ ~verify_password(password, TheOne(found).hashed_password)
        THEN "Incorrect username or password"
    ELSE ""

\* A login that never tests is_active.
LoginErrorNoActiveCheck(found, password) ==
    IF found = {} \/ ~verify_password(password, TheOne(found).hashed_password)
        THEN "Incorrect username or password"
    ELSE ""

\* login's two rejections, "" when the credentials pass: the 401 for no user,
\* no hash or a password that does not verify, then the 400 for is_active.
LoginError(found, password) ==
    IF \/ found = {}
       \/ Len(TheOne(found).hashed_password) = 0
       \/ ~verify_password(password, TheOne(found).hashed_password)
        THEN "Incorrect username or password"
    ELSE IF ~TheOne(found).is_active
        THEN "Account not active. Please verify your email address first."
    ELSE ""

LoginErrorCode(detail) ==
    IF detail = "Incorrect username or password" THEN 401 ELSE 400

\* login: get_user_by_username, the credential and is_active checks, and
\* the two tokens minted before create_user_session is awaited.
Login(r, username, password) ==
    /\ CanStart(r)
    /\ started' = started + 1
    /\ LET q == [Begin("login") EXCEPT !.name = username, !.pw = password]
           found == get_user_by_username(username)
           err == LoginError(found, password)
       IN Step(r,
            IF err # "" THEN Fail(q, LoginErrorCode(err), err)
            ELSE [q EXCEPT
                    !.pc = "cs_get_user",
                    !.user = found,
                    !.access = create_access_token(
                                   TheOne(found).username, TheOne(found).id, now),
                    !.refresh = create_refresh_token(
                                   TheOne(found).username, TheOne(found).id, now)])
    /\ UNCHANGED <<store, now, history>>

\* create_user_session, first await: re-fetch the user by id.
CreateSessionGetUser(r) ==
    /\ req[r].pc = "cs_get_user"
    /\ LET q == req[r]
           found == get_user_by_id(TheOne(q.user).id)
       IN Step(r,
            IF found = {}
              THEN Fail(q, 404, "User not found for session creation")
              ELSE [q EXCEPT
                      !.pc = "cs_insert",
                      !.user = found,
                      !.sess = {SessionRow(0, TheOne(found).id, q.refresh,
                                           now + REFRESH_TOKEN_EXPIRE_MINUTES,
                                           TRUE)}])
    /\ UNCHANGED <<store, now, history, started>>

\* create_user_session, second await: Session.create, then the handler
\* returns Token(access_token, refresh_token, "bearer").
CreateSessionInsert(r) ==
    /\ req[r].pc = "cs_insert"
    /\ LET q == req[r]
           row == [TheOne(q.sess) EXCEPT !.id = nextSessionId]
       IN IF SessionInsertRejected(row)
            THEN /\ Step(r,
                      Fail(q, 500, "An unexpected internal server error occurred."))
                 /\ UNCHANGED <<store, history>>
            ELSE /\ sessions' = sessions \cup {row}
                 /\ nextSessionId' = nextSessionId + 1
                 /\ Step(r, Succeed(q, "bearer"))
                 /\ issued' = issued \cup {q.access, q.refresh}
                 /\ rotated' = IF q.op = "refresh"
                                  THEN rotated \cup {q.jwt} ELSE rotated
                 /\ parent' = IF q.op = "refresh"
                                 THEN parent \cup {<<q.refresh, q.jwt>>}
                                 ELSE parent
                 /\ UNCHANGED <<users, nextUserId, nextToken, loggedOut,
                                refused, resent, aborted>>
    /\ UNCHANGED <<now, started>>

\* ------------------------------------------------------------ Refresh
\* What a client can present as a JWT: a token it was handed, the same with
\* a broken signature, or a string that is no JWT.
PresentedJwts ==
    issued \cup {Tampered(create_refresh_token("alice", 1, 0)), Garbage}

\* A decode step that accepts a token of any type.
RefreshDecodeErrorNoTypeCheck(tok, clock) ==
    LET d == decode_token(tok, clock) IN
    IF d = "expired" THEN "Refresh token signature has expired (JWT lib check)"
    ELSE IF d = "invalid" THEN "Invalid refresh token (JWT lib check)"
    ELSE IF d = "none" THEN "Invalid refresh token payload or type"
    ELSE ""

\* The 401 detail for a token that does not decode to a refresh token, ""
\* when it does (refresh_access_token, the try block's head and the two
\* except clauses for the jwt errors).
RefreshDecodeError(tok, clock) ==
    LET d == decode_token(tok, clock) IN
    IF d = "expired" THEN "Refresh token signature has expired (JWT lib check)"
    ELSE IF d = "invalid" THEN "Invalid refresh token (JWT lib check)"
    ELSE IF d = "none" \/ tok.type # "refresh"
        THEN "Invalid refresh token payload or type"
    ELSE ""

\* What the request has seen happen to the token before it starts.
After(tok) ==
    (IF tok \in rotated THEN {"rotation"} ELSE {})
        \cup (IF tok \in loggedOut THEN {"logout"} ELSE {})
        \cup (IF tok \in refused THEN {"inactive_owner"} ELSE {})

\* refresh_access_token up to its first await: decode_token and the type check.
Refresh(r, tok) ==
    /\ CanStart(r)
    /\ started' = started + 1
    /\ LET q == [Begin("refresh") EXCEPT !.jwt = tok, !.after = After(tok)]
           err == RefreshDecodeError(tok, now)
       IN Step(r,
            IF err # "" THEN Fail(q, 401, err)
                        ELSE [q EXCEPT !.pc = "refresh_lookup"])
    /\ UNCHANGED <<store, now, history>>

\* A lookup that accepts a row whatever its is_active.
RefreshSessionErrorNoActiveCheck(found) ==
    IF found = {} THEN "Refresh token not found or already used" ELSE ""

\* The two rejections of refresh_access_token on the row it looked up.
RefreshSessionError(found) ==
    IF found = {} THEN "Refresh token not found or already used"
    ELSE IF ~TheOne(found).is_active THEN "Refresh token has been invalidated"
    ELSE ""

\* get_user_session_by_token and the three checks on the row.  The request
\* notes (in "after", which the handler never reads) whether the row's owner
\* is missing or inactive at this moment; the handler reads the owner in its
\* next await.
RefreshLookup(r) ==
    /\ req[r].pc = "refresh_lookup"
    /\ LET q == req[r]
           found == get_user_session_by_token(q.jwt)
           owner == {u \in users : u.id = TheOne(found).user_id /\ u.is_active}
       IN Step(r,
            IF RefreshSessionError(found) # ""
              THEN Fail(q, 401, RefreshSessionError(found))
            ELSE IF TheOne(found).expires_at < now
              THEN [q EXCEPT !.pc = "refresh_deactivate", !.sess = found,
                             !.pending = "Refresh token has expired"]
            ELSE [q EXCEPT !.pc = "refresh_get_user", !.sess = found,
                           !.after = IF owner = {}
                                       THEN q.after \cup {"owner_unusable"}
                                       ELSE q.after])
    /\ UNCHANGED <<store, now, history, started>>

\* get_user_by_id for the session's owner.
RefreshGetUser(r) ==
    /\ req[r].pc = "refresh_get_user"
    /\ LET q == req[r]
           found == get_user_by_id(TheOne(q.sess).user_id)
       IN Step(r,
            IF found = {}
              THEN [q EXCEPT !.pc = "refresh_deactivate",
                      !.pending = "User associated with refresh token not found"]
            ELSE IF ~TheOne(found).is_active
              THEN [q EXCEPT !.pc = "refresh_deactivate",
                             !.pending = "User is inactive"]
            ELSE [q EXCEPT !.pc = "refresh_deactivate", !.user = found])
    /\ UNCHANGED <<store, now, history, started>>

\* deactivate_user_session on the copy read at the lookup; then either the
\* pending AuthenticationError, or the new token pair is minted.
RefreshDeactivate(r) ==
    /\ req[r].pc = "refresh_deactivate"
    /\ LET q == req[r] IN
       /\ sessions' = deactivate_user_session(TheOne(q.sess))
       /\ Step(r,
            IF q.pending # ""
              THEN Fail(q, 401, q.pending)
              ELSE [q EXCEPT
                      !.pc = "cs_get_user",
                      !.sess = {},
                      !.access = create_access_token(
                                     TheOne(q.user).username, TheOne(q.user).id, now),
                      !.refresh = create_refresh_token(
                                     TheOne(q.user).username, TheOne(q.user).id, now)])
       /\ refused' = IF q.pending = "User is inactive"
                        THEN refused \cup {q.jwt} ELSE refused
    /\ UNCHANGED <<users, nextUserId, nextSessionId, nextToken, now, issued,
                   rotated, loggedOut, parent, resent, aborted, started>>

\* ------------------------------------------------------------- Logout
\* The Authorization header of a request.
Headers ==
    {[scheme |-> "", credentials |-> NoJwt],
     [scheme |-> "Basic", credentials |-> Garbage]}
        \cup {[scheme |-> "Bearer", credentials |-> t] : t \in PresentedJwts}

\* A gate that also wants an active session of the token's user.
GateErrorChecksSession(header, clock) ==
    LET d == decode_token(header.credentials, clock) IN
    IF header.scheme = "" THEN "Not authenticated"
    ELSE IF header.scheme # "Bearer" THEN "Invalid authentication credentials"
    ELSE IF d = "expired" THEN "Access token has expired."
    ELSE IF d = "invalid" THEN "Invalid access token."
    ELSE IF d = "none" THEN "Invalid token: Username missing."
    ELSE IF ~\E s \in sessions : /\ s.user_id = header.credentials.user_id
                                  /\ s.is_active
        THEN "Invalid access token."
    ELSE ""

\* A gate that lets an expired token through.
GateErrorIgnoresExpiry(header, clock) ==
    LET d == decode_token(header.credentials, clock) IN
    IF header.scheme = "" THEN "Not authenticated"
    ELSE IF header.scheme # "Bearer" THEN "Invalid authentication credentials"
    ELSE IF d = "invalid" THEN "Invalid access token."
    ELSE IF d = "none" THEN "Invalid token: Username missing."
    ELSE ""

\* JWTBearer.__call__ on a path that is not excluded: "" when the request
\* passes, else the rejection message.  HTTPBearer rejects a missing header
\* and a scheme other than Bearer before the token is decoded.
GateError(header, clock) ==
    LET d == decode_token(header.credentials, clock) IN
    IF header.scheme = "" THEN "Not authenticated"
    ELSE IF header.scheme # "Bearer" THEN "Invalid authentication credentials"
    ELSE IF d = "expired" THEN "Access token has expired."
    ELSE IF d = "invalid" THEN "Invalid access token."
    ELSE IF d = "none" THEN "Invalid token: Username missing."
    ELSE ""

GateCode(header) == IF header.scheme = "Bearer" THEN 401 ELSE 403

\* An early return for a missing row only.
LogoutNothingToDoOnlyMissing(found) == found = {}

\* logout_user's early return: no row for the token, or an inactive one.
LogoutNothingToDo(found) == found = {} \/ ~TheOne(found).is_active

\* logout_user behind the gate: get_user_session_by_token and the early
\* return; TokenData has no user_id, so the owner check fetches the caller.
Logout(r, header, tok) ==
    /\ CanStart(r)
    /\ started' = started + 1
    /\ LET q == [Begin("logout") EXCEPT !.jwt = tok,
                                        !.name = header.credentials.sub,
                                        !.bearer = header.credentials]
           found == get_user_session_by_token(tok)
       IN Step(r,
            IF GateError(header, now) # ""
              THEN Fail(q, GateCode(header), GateError(header, now))
            ELSE IF LogoutNothingToDo(found)
              THEN Succeed(q, "Logout processed (token not found or already inactive).")
            ELSE [q EXCEPT !.pc = "logout_get_user", !.sess = found])
    /\ UNCHANGED <<store, now, history>>

\* get_user_by_username for the caller; a mismatch with the session's owner
\* is printed and the handler goes on.
LogoutGetUser(r) ==
    /\ req[r].pc = "logout_get_user"
    /\ Step(r,
            [req[r] EXCEPT !.pc = "logout_deactivate",
                      !.user = get_user_by_username(req[r].name)])
    /\ UNCHANGED <<store, now, history, started>>

\* deactivate_user_session, then the success response.
LogoutDeactivate(r) ==
    /\ req[r].pc = "logout_deactivate"
    /\ sessions' = deactivate_user_session(TheOne(req[r].sess))
    /\ loggedOut' = loggedOut \cup {req[r].jwt}
    /\ Step(r,
            [Succeed(req[r], "Successfully logged out.") EXCEPT !.user = {}])
    /\ UNCHANGED <<users, nextUserId, nextSessionId, nextToken, now, issued,
                   rotated, parent, refused, resent, aborted, started>>

\* A bulk update without the user_id filter.
DeactivateAllOfEveryUser(r, user_id) ==
    /\ CanStart(r)
    /\ started' = started + 1
    /\ LET q == [Begin("deactivate_all") EXCEPT !.etok = user_id]
           hit == {s \in sessions : s.is_active}
       IN /\ sessions' = {IF s \in hit THEN [s EXCEPT !.is_active = FALSE]
                                       ELSE s : s \in sessions}
          /\ Step(r, Returned([q EXCEPT !.sess = hit], "count"))
    /\ UNCHANGED <<users, nextUserId, nextSessionId, nextToken, now, history>>

\* deactivate_all_user_sessions: one UPDATE of the user's active rows; the
\* rows it changed are kept in sess, their number is the value returned
\* (the user_id argument is kept in etok).
DeactivateAll(r, user_id) ==
    /\ CanStart(r)
    /\ started' = started + 1
    /\ LET q == [Begin("deactivate_all") EXCEPT !.etok = user_id]
           hit == {s \in sessions : s.user_id = user_id /\ s.is_active}
       IN /\ sessions' = {IF s \in hit THEN [s EXCEPT !.is_active = FALSE]
                                       ELSE s : s \in sessions}
          /\ Step(r, Returned([q EXCEPT !.sess = hit], "count"))
    /\ UNCHANGED <<users, nextUserId, nextSessionId, nextToken, now, history>>

\* --------------------------------------------------------- delete_user
\* UserService.delete_user: get_user_by_id, then Model.delete(); the foreign
\* key of session.user_id is ON DELETE CASCADE.
DeleteUser(r, user_id) ==
    /\ CanStart(r)
    /\ started' = started + 1
    /\ LET q == Begin("delete")
           found == get_user_by_id(user_id)
       IN Step(r,
            IF found = {} THEN Fail(q, 404, "User not found for deletion")
                          ELSE [q EXCEPT !.pc = "delete_row", !.user = found])
    /\ UNCHANGED <<store, now, history>>

\* A delete that leaves the user's sessions behind.
DeleteRowKeepsSessions(r) ==
    /\ req[r].pc = "delete_row"
    /\ LET id == TheOne(req[r].user).id IN
       /\ users' = {u \in users : u.id # id}
       /\ sessions' = sessions
    /\ Step(r, [Succeed(req[r], "User deleted successfully") EXCEPT !.user = {}])
    /\ UNCHANGED <<nextUserId, nextSessionId, nextToken, now, history, started>>

\* Model.delete() of the row read; the sessions of the user go with it.
DeleteRow(r) ==
    /\ req[r].pc = "delete_row"
    /\ LET id == TheOne(req[r].user).id IN
       /\ users' = {u \in users : u.id # id}
       /\ sessions' = {s \in sessions : s.user_id # id}
    /\ Step(r, [Succeed(req[r], "User deleted successfully") EXCEPT !.user = {}])
    /\ UNCHANGED <<nextUserId, nextSessionId, nextToken, now, history, started>>

\* --------------------------------------------------------- update_user
\* The UserUpdate bodies drawn: is_active and password ("" = not set).
UpdateBodies ==
    {[is_active |-> "true", password |-> ""],
     [is_active |-> "false", password |-> ""],
     [is_active |-> "unset", password |-> "pw2"]}

\* UserService.update_user: get_user_by_id, the new hash, the fields set on
\* the copy.  Username and email are not in the bodies drawn, so the two
\* conflict queries are not awaited.
UpdateUser(r, user_id, body, salt) ==
    /\ CanStart(r)
    /\ started' = started + 1
    /\ LET q == Begin("update")
           found == get_user_by_id(user_id)
           u == TheOne(found)
           u1 == IF body.password # ""
                   THEN [u EXCEPT !.hashed_password =
                                    get_password_hash(body.password, salt)]
                   ELSE u
           u2 == IF body.is_active # "unset"
                   THEN [u1 EXCEPT !.is_active = (body.is_active = "true")]
                   ELSE u1
       IN Step(r,
            IF found = {} THEN Fail(q, 404, "User not found for update")
            ELSE [q EXCEPT
                    !.pc = "update_save",
                    !.user = {u2},
                    !.fields =
                       (IF body.password # "" THEN {"hashed_password"} ELSE {})
                         \cup (IF body.is_active # "unset"
                                 THEN {"is_active"} ELSE {})])
    /\ UNCHANGED <<store, now, history>>

UpdateSave(r) ==
    /\ req[r].pc = "update_save"
    /\ users' = SaveUser(TheOne(req[r].user), req[r].fields)
    /\ Step(r, Succeed(req[r], "User updated successfully"))
    /\ UNCHANGED <<sessions, nextUserId, nextSessionId, nextToken, now, history,
                   started>>

\* ------------------------------------------------- the session lifecycle
\* The salt bcrypt draws for a new hash (the rows of Init carry salt 1, so a
\* rewritten hash always differs from the stored one).
Salts == {2}

Next ==
    \/ Tick
    \/ \E r \in Requests :
        \/ \E n \in Usernames, p \in Passwords : Login(r, n, p)
        \/ CreateSessionGetUser(r)
        \/ CreateSessionInsert(r)
        \/ \E t \in PresentedJwts : Refresh(r, t)
        \/ RefreshLookup(r)
        \/ RefreshGetUser(r)
        \/ RefreshDeactivate(r)
        \/ \E h \in Headers, t \in PresentedJwts : Logout(r, h, t)
        \/ LogoutGetUser(r)
        \/ LogoutDeactivate(r)
        \/ \E id \in 1..2 : DeactivateAll(r, id)
        \/ \E id \in 1..2 : DeleteUser(r, id)
        \/ DeleteRow(r)
        \/ \E id \in 1..2, b \in UpdateBodies, s \in Salts : UpdateUser(r, id, b, s)
        \/ UpdateSave(r)

Spec == Init /\ [][Next]_vars

\* The store after an update_user call has set alice's is_active to false:
\* update_user writes the user row only, so her session is still active.
InitOwnerDeactivated ==
    /\ users = {
         UserRow(1, "alice", "alice@x.com", get_password_hash("pw1", 1),
                 FALSE, TRUE, NoToken, NoExpiry, NoToken, NoExpiry),
         UserRow(2, "bob", "bob@x.com", get_password_hash("pw1", 1),
                 FALSE, FALSE, 1, EMAIL_VERIFICATION_TOKEN_EXPIRE_HOURS,
                 NoToken, NoExpiry)}
    /\ sessions = {SessionRow(1, 1, create_refresh_token("alice", 1, 0),
                              REFRESH_TOKEN_EXPIRE_MINUTES, TRUE)}
    /\ nextUserId = 3
    /\ nextSessionId = 2
    /\ nextToken = 2
    /\ now = 0
    /\ req = [r \in Requests |-> Idle]
    /\ last = Idle
    /\ issued = {create_access_token("alice", 1, 0),
                 create_refresh_token("alice", 1, 0)}
    /\ rotated = {}
    /\ loggedOut = {}
    /\ parent = {}
    /\ refused = {}
    /\ resent = {}
    /\ aborted = {}
    /\ started = 0

SpecOwnerDeactivated == InitOwnerDeactivated /\ [][Next]_vars

\* The store after alice and bob have both registered, verified their
\* addresses and logged in at time 0.
InitTwoUsers ==
    /\ users = {
         UserRow(1, "alice", "alice@x.com", get_password_hash("pw1", 1),
                 TRUE, TRUE, NoToken, NoExpiry, NoToken, NoExpiry),
         UserRow(2, "bob", "bob@x.com", get_password_hash("pw1", 1),
                 TRUE, TRUE, NoToken, NoExpiry, NoToken, NoExpiry)}
    /\ sessions = {SessionRow(1, 1, create_refresh_token("alice", 1, 0),
                              REFRESH_TOKEN_EXPIRE_MINUTES, TRUE),
                   SessionRow(2, 2, create_refresh_token("bob", 2, 0),
                              REFRESH_TOKEN_EXPIRE_MINUTES, TRUE)}
    /\ nextUserId = 3
    /\ nextSessionId = 3
    /\ nextToken = 3
    /\ now = 0
    /\ req = [r \in Requests |-> Idle]
    /\ last = Idle
    /\ issued = {create_access_token("alice", 1, 0),
                 create_refresh_token("alice", 1, 0),
                 create_access_token("bob", 2, 0),
                 create_refresh_token("bob", 2, 0)}
    /\ rotated = {}
    /\ loggedOut = {}
    /\ parent = {}
    /\ refused = {}
    /\ resent = {}
    /\ aborted = {}
    /\ started = 0

SpecTwoUsers == InitTwoUsers /\ [][Next]_vars

\* ------------------------------------------------- requests cut off
\* The positions of login and refresh_access_token that follow one of their
\* store operations.
AbortPoints ==
    {"cs_get_user", "cs_insert", "refresh_get_user", "refresh_deactivate"}

\* The user a Login or Refresh request acts for.
ActsFor(q) == IF q.op = "login" THEN TheOne(q.user).id ELSE q.jwt.user_id

\* The client disconnects and the handler's task is cancelled at an await:
\* the request ends where it stands, without response.
Abort(r) ==
    /\ req[r].op \in {"login", "refresh"}
    /\ req[r].pc \in AbortPoints
    /\ req' = [req EXCEPT ![r] = Idle]
    /\ aborted' = aborted \cup {ActsFor(req[r])}
    /\ UNCHANGED <<store, now, last, issued, rotated, loggedOut, parent,
                   refused, resent, started>>

\* Session.create completes and the task is cancelled before the handler
\* returns: the row is there, the token pair never reaches the client.
AbortAfterInsert(r) ==
    /\ req[r].pc = "cs_insert"
    /\ LET q == req[r]
           row == [TheOne(q.sess) EXCEPT !.id = nextSessionId]
       IN /\ ~SessionInsertRejected(row)
          /\ sessions' = sessions \cup {row}
          /\ aborted' = aborted \cup {ActsFor(q)}
    /\ nextSessionId' = nextSessionId + 1
    /\ req' = [req EXCEPT ![r] = Idle]
    /\ UNCHANGED <<users, nextUserId, nextToken, now, last, issued, rotated,
                   loggedOut, parent, refused, resent, started>>

NextAbort ==
    \/ Next
    \/ \E r \in Requests : Abort(r)
    \/ \E r \in Requests : AbortAfterInsert(r)

SpecAbort == Init /\ [][NextAbort]_vars

\* ================================================= the ephemeral tokens
\* Email verification and password reset, modelled as a lifecycle of their
\* own (SpecLedger) from the same initial store.

\* The number of ledger requests a behaviour starts.
MaxLedgerStarts == 3

Emails == {"alice@x.com", "bob@x.com", "nobody@x.com"}

\* The token strings a caller can present: every one drawn so far, and one
\* that was never issued.
PresentedTokens == 1..nextToken

CanStartLedger(r) == req[r].pc = "idle" /\ started < MaxLedgerStarts

\* A lookup that takes any user who holds some verification token.
AnyPendingUser(token) ==
    {u \in users : u.email_verification_token # NoToken}

\* User.get_or_none(email_verification_token=token)
get_user_by_verification_token(token) ==
    {u \in users : u.email_verification_token = token}

\* User.get_or_none(password_reset_token=token)
get_user_by_reset_token(token) ==
    {u \in users : u.password_reset_token = token}

\* The branch verify_email_token takes on the row it has read.
VerifyOutcome(found, clock) ==
    IF found = {} THEN "none"
    ELSE IF TheOne(found).is_email_verified THEN "already"
    ELSE IF \/ TheOne(found).email_verification_token_expires_at = NoExpiry
            \/ TheOne(found).email_verification_token_expires_at < clock
        THEN "expired"
    ELSE "ok"

\* The branch reset_password takes on the row it has read.
ResetOutcome(found, clock) ==
    IF found = {} THEN "none"
    ELSE IF \/ TheOne(found).password_reset_token_expires_at = NoExpiry
            \/ TheOne(found).password_reset_token_expires_at < clock
        THEN "expired"
    ELSE "ok"

\* A verification that activates the user but leaves the token stored.
VerifiedCopyKeepsToken(u) ==
    [u EXCEPT !.is_active = TRUE, !.is_email_verified = TRUE]

\* The copy verify_email_token saves for a valid token.
VerifiedCopy(u) ==
    [u EXCEPT !.is_active = TRUE, !.is_email_verified = TRUE,
              !.email_verification_token = NoToken,
              !.email_verification_token_expires_at = NoExpiry]

VerifiedFields ==
    {"is_active", "is_email_verified", "email_verification_token",
     "email_verification_token_expires_at"}

VerificationTokenFields ==
    {"email_verification_token", "email_verification_token_expires_at"}

ResetTokenFields ==
    {"password_reset_token", "password_reset_token_expires_at"}

InvalidVerificationToken ==
    "Invalid or expired verification token, or email already verified with this token."

\* GET /auth/verify-email/{token}: the lookup, the branch, and the changes
\* made to the copy before the save is awaited.
VerifyEmail(r, token) ==
    /\ CanStartLedger(r)
    /\ started' = started + 1
    /\ LET q == [Begin("verify") EXCEPT !.etok = token]
           found == get_user_by_verification_token(token)
           outcome == VerifyOutcome(found, now)
           u == TheOne(found)
       IN Step(r,
            CASE outcome = "none" -> Fail(q, 400, InvalidVerificationToken)
              [] outcome = "already" ->
                    Succeed([q EXCEPT !.user = found],
                      "Email verified successfully. Your account is now active.")
              [] outcome = "expired" ->
                    [q EXCEPT
                       !.pc = "user_save", !.pending = "expired",
                       !.user = {[u EXCEPT
                           !.email_verification_token = NoToken,
                           !.email_verification_token_expires_at = NoExpiry]},
                       !.fields = VerificationTokenFields]
              [] outcome = "ok" ->
                    [q EXCEPT
                       !.pc = "user_save", !.pending = "ok",
                       !.user = {VerifiedCopy(u)},
                       !.fields = VerifiedFields])
    /\ UNCHANGED <<store, now, history>>

\* resend_verification_email: the lookup, the new token and expiry, and
\* is_active = False, set on the copy before the save is awaited.
ResendVerification(r, email) ==
    /\ CanStartLedger(r)
    /\ started' = started + 1
    /\ LET q == [Begin("resend") EXCEPT !.name = email]
           found == get_user_by_email(email)
           u == TheOne(found)
           fresh == found # {} /\ ~u.is_email_verified
       IN /\ Step(r,
               IF fresh
                 THEN [q EXCEPT
                         !.pc = "user_save", !.pending = "ok",
                         !.etok = nextToken,
                         !.user = {[u EXCEPT
                            !.email_verification_token = nextToken,
                            !.email_verification_token_expires_at =
                                now + EMAIL_VERIFICATION_TOKEN_EXPIRE_HOURS,
                            !.is_active = FALSE]},
                         !.fields = VerificationTokenFields \cup {"is_active"}]
                 ELSE Returned(q, "False"))
          /\ nextToken' = IF fresh THEN nextToken + 1 ELSE nextToken
    /\ UNCHANGED <<users, sessions, nextUserId, nextSessionId, now, history>>

\* A test that lets every existing user through.
ResetRequestedForAny(found) == found # {}

\* request_password_reset's test on the row it has read: user and
\* user.is_active.
ResetRequested(found) == found # {} /\ TheOne(found).is_active

\* request_password_reset: for an active user the token is drawn and the
\* expiry computed from settings.PASSWORD_RESET_TOKEN_EXPIRE_HOURS, which
\* no settings class defines: AttributeError before anything is saved.
RequestPasswordReset(r, email) ==
    /\ CanStartLedger(r)
    /\ started' = started + 1
    /\ LET q == [Begin("request_reset") EXCEPT !.name = email]
           found == get_user_by_email(email)
           active == ResetRequested(found)
       IN /\ Step(r,
               IF active
                 THEN Fail([q EXCEPT !.etok = nextToken], 500, "AttributeError")
                 ELSE Returned(q, "False"))
          /\ nextToken' = IF active THEN nextToken + 1 ELSE nextToken
    /\ UNCHANGED <<users, sessions, nextUserId, nextSessionId, now, history>>

\* reset_password: the lookup, the branch, and the changes made to the copy
\* before the save is awaited.
ResetPassword(r, token, new_password, salt) ==
    /\ CanStartLedger(r)
    /\ started' = started + 1
    /\ LET q == [Begin("reset") EXCEPT !.etok = token, !.pw = new_password]
           found == get_user_by_reset_token(token)
           outcome == ResetOutcome(found, now)
           u == TheOne(found)
       IN Step(r,
            CASE outcome = "none" -> Returned(q, "None")
              [] outcome = "expired" ->
                    [q EXCEPT
                       !.pc = "user_save", !.pending = "expired",
                       !.user = {[u EXCEPT
                           !.password_reset_token = NoToken,
                           !.password_reset_token_expires_at = NoExpiry]},
                       !.fields = ResetTokenFields]
              [] outcome = "ok" ->
                    [q EXCEPT
                       !.pc = "user_save", !.pending = "ok",
                       !.user = {[u EXCEPT
                           !.hashed_password =
                               get_password_hash(new_password, salt),
                           !.password_reset_token = NoToken,
                           !.password_reset_token_expires_at = NoExpiry,
                           !.is_active = TRUE]},
                       !.fields = ResetTokenFields
                                    \cup {"hashed_password", "is_active"}])
    /\ UNCHANGED <<store, now, history>>

\* POST /auth/register: what a caller can send as user_in.
RegisterNames == {"bob", "carol"}
RegisterEmails == {"bob@x.com", "carol@x.com", ""}

\* A registration that does not look the username up.
UsernameTakenNever(username) == FALSE

\* User.filter(username=...).exists()
UsernameTaken(username) == \E u \in users : u.username = username

\* User.filter(email=...).exists()
EmailTaken(email) == \E u \in users : u.email = email

\* A table without unique indexes.
UserInsertNeverRejected(row) == FALSE

\* User.create: the unique indexes on username and email reject the insert
\* (the verification token is fresh, so its index never does).
UserInsertRejected(row) ==
    \E u \in users : u.username = row.username \/ u.email = row.email

\* create_user up to its first await: the email-required check and the
\* username lookup.  user_in is kept as a row without id, hash and token.
Register(r, username, email, password) ==
    /\ CanStartLedger(r)
    /\ started' = started + 1
    /\ LET q == [Begin("register") EXCEPT
                   !.name = username, !.pw = password,
                   !.user = {UserRow(0, username, email, <<>>, FALSE, FALSE,
                                     NoToken, NoExpiry, NoToken, NoExpiry)}]
       IN Step(r,
            IF email = "" THEN Fail(q, 400, "Email is required.")
            ELSE IF UsernameTaken(username)
                THEN Fail(q, 400, "Username already registered.")
            ELSE [q EXCEPT !.pc = "register_email"])
    /\ UNCHANGED <<store, now, history>>

\* create_user: the email lookup, then the hash, the verification token and
\* its expiry, computed before User.create is awaited.
RegisterCheckEmail(r, salt) ==
    /\ req[r].pc = "register_email"
    /\ LET q == req[r]
           user_in == TheOne(q.user)
           taken == EmailTaken(user_in.email)
       IN /\ Step(r,
               IF taken THEN Fail(q, 400, "Email already registered.")
               ELSE [q EXCEPT
                       !.pc = "register_create",
                       !.etok = nextToken,
                       !.user = {[user_in EXCEPT
                          !.hashed_password = get_password_hash(q.pw, salt),
                          !.email_verification_token = nextToken,
                          !.email_verification_token_expires_at =
                              now + EMAIL_VERIFICATION_TOKEN_EXPIRE_HOURS]}])
          /\ nextToken' = IF taken THEN nextToken ELSE nextToken + 1
    /\ UNCHANGED <<users, sessions, nextUserId, nextSessionId, now, history,
                   started>>

\* create_user's try block: User.create, then task_send_verification_email
\* .delay(...).  task_send_verification_email is a plain function and has no
\* attribute delay, so the call raises AttributeError after the row is
\* written; an IntegrityError of the insert and that AttributeError both end
\* in the except clause: 500.
RegisterCreate(r) ==
    /\ req[r].pc = "register_create"
    /\ LET q == req[r]
           row == [TheOne(q.user) EXCEPT !.id = nextUserId]
       IN /\ users' = IF UserInsertRejected(row) THEN users
                      ELSE users \cup {row}
          /\ Step(r, Fail(q, 500,
                          "Could not create user due to a server error."))
    /\ nextUserId' = nextUserId + 1
    /\ UNCHANGED <<sessions, nextSessionId, nextToken, now, history, started>>

\* await user.save(update_fields=...) of the three methods, and what each
\* does after it: verify_user_email answers, reset_password returns, and
\* resend_verification_email calls send_verification_email_task, a name the
\* module does not import (NameError).
UserSave(r) ==
    /\ req[r].pc = "user_save"
    /\ users' = SaveUser(TheOne(req[r].user), req[r].fields)
    /\ LET q == req[r]
       IN Step(r,
            CASE q.op = "verify" /\ q.pending = "ok" ->
                    Succeed(q,
                      "Email verified successfully. Your account is now active.")
              [] q.op = "verify" /\ q.pending = "expired" ->
                    Fail(q, 400, InvalidVerificationToken)
              [] q.op = "resend" -> Fail(q, 500, "NameError")
              [] q.op = "reset" /\ q.pending = "ok" -> Returned(q, "user")
              [] q.op = "reset" /\ q.pending = "expired" ->
                    Returned([q EXCEPT !.user = {}], "None"))
    /\ resent' = IF req[r].op = "resend"
                    THEN resent \cup
                           {<<u.email_verification_token, req[r].etok>> :
                              u \in get_user_by_id(TheOne(req[r].user).id)}
                    ELSE resent
    /\ UNCHANGED <<sessions, nextUserId, nextSessionId, nextToken, now,
                   issued, rotated, loggedOut, parent, refused, aborted,
                   started>>

NextLedger ==
    \/ Tick
    \/ \E r \in Requests :
        \/ \E t \in PresentedTokens : VerifyEmail(r, t)
        \/ \E e \in Emails : ResendVerification(r, e)
        \/ \E e \in Emails : RequestPasswordReset(r, e)
        \/ \E t \in PresentedTokens, s \in Salts :
              ResetPassword(r, t, "pw2", s)
        \/ UserSave(r)
        \/ \E n \in RegisterNames, e \in RegisterEmails :
              Register(r, n, e, "pw2")
        \/ \E s \in Salts : RegisterCheckEmail(r, s)
        \/ RegisterCreate(r)
        \/ \E id \in 1..2, b \in UpdateBodies, s \in Salts :
              UpdateUser(r, id, b, s)
        \/ UpdateSave(r)

SpecLedger == Init /\ [][NextLedger]_vars

\* ================================================================ claims
\* The errors a Refresh answers with for a token it does not redeem.
RevokedDetails ==
    {"Refresh token has been invalidated",
     "Refresh token not found or already used"}

\* No Refresh that started after event e of its token gets past the session
\* lookup, so none deactivates, mints or creates anything.
StopsAtLookup(e) ==
    \A r \in Requests :
        (req[r].op = "refresh" /\ e \in req[r].after)
            => req[r].pc = "refresh_lookup"

\* C1 as stated: a Refresh(t) started after a Refresh(t) has completed
\* successfully fails with the 401 "invalidated" / "not found or already
\* used" error and creates no session.
C1_RotationOneShotAsStated ==
    /\ StopsAtLookup("rotation")
    /\ (last.op = "refresh" /\ "rotation" \in last.after)
           => (last.code = 401 /\ last.detail \in RevokedDetails)

\* C1, amended: a Refresh(t) started after a Refresh(t) has completed
\* successfully fails with a 401 error and creates no session; the error is
\* "invalidated" / "not found or already used" while the token's exp has not
\* passed, and the JWT "signature has expired" error once it has.
C1_RotationOneShot ==
    /\ StopsAtLookup("rotation")
    /\ (last.op = "refresh" /\ "rotation" \in last.after)
           => /\ last.code = 401
              /\ last.detail \in RevokedDetails
                    \cup {"Refresh token signature has expired (JWT lib check)"}
              /\ (last.detail \notin RevokedDetails) => (last.jwt.exp <= now)

\* C1 witness: a replay of a rotated-out token has been answered
\* "invalidated".
C1_Witness ==
    /\ last.op = "refresh"
    /\ "rotation" \in last.after
    /\ last.code = 401
    /\ last.detail = "Refresh token has been invalidated"

\* C2: of the Refresh calls that present one refresh token, at most one
\* succeeds: no Refresh completes successfully for a token that an earlier
\* Refresh has already rotated.
C2_AtMostOneRotation ==
    [][\A r \in Requests :
          (/\ req[r].op = "refresh"
           /\ req[r].pc = "cs_insert"
           /\ req'[r].pc = "idle"
           /\ last'.code = 200)
              => req[r].jwt \notin rotated]_vars

\* C3: a Login that has passed the credential and is_active checks, for a
\* user whose row is still there, goes on at each step and completes with
\* 200, an access and a refresh token, and exactly one new Session row:
\* active, owned by the user, keyed by the returned refresh token; no other
\* row changes.
C3_LoginCreatesOneSession ==
    [][\A r \in Requests :
          (/\ req[r].op = "login"
           /\ req[r].pc \in {"cs_get_user", "cs_insert"}
           /\ req'[r] # req[r]
           /\ get_user_by_id(TheOne(req[r].user).id) # {})
              => \/ req'[r].pc = "cs_insert" /\ UNCHANGED <<users, sessions>>
                 \/ /\ req'[r].pc = "idle"
                    /\ last'.code = 200
                    /\ last'.detail = "bearer"
                    /\ last'.access.type = "access"
                    /\ last'.refresh.type = "refresh"
                    /\ users' = users
                    /\ \E s \in sessions' \ sessions :
                          /\ sessions' = sessions \cup {s}
                          /\ s.is_active
                          /\ s.user_id = TheOne(req[r].user).id
                          /\ s.refresh_token = last'.refresh]_vars

\* C4: a Login whose password does not match is answered 401 "Incorrect
\* username or password", the same for a missing, an active and an inactive
\* user, and changes no session and no user.
C4_WrongPasswordUniform ==
    [][\A r \in Requests, n \in Usernames, p \in Passwords :
          (/\ started' # started
           /\ \A u \in get_user_by_username(n) :
                 ~verify_password(p, u.hashed_password)
           /\ Login(r, n, p))
              => /\ req'[r].pc = "idle"
                 /\ last'.code = 401
                 /\ last'.detail = "Incorrect username or password"
                 /\ last'.access = NoJwt /\ last'.refresh = NoJwt
                 /\ UNCHANGED <<users, sessions>>]_vars

\* C4 witness: the wrong password for inactive bob has been answered 401.
C4_Witness ==
    /\ last.op = "login" /\ last.name = "bob" /\ last.pw = "pw2"
    /\ last.code = 401
    /\ \E u \in users :
          /\ u.username = "bob" /\ ~u.is_active
          /\ verify_password("pw1", u.hashed_password)

\* C5: a Login with the right password of a user whose is_active is false
\* is answered 400 "Account not active", gets no tokens and creates no
\* session.
C5_InactiveLoginRejected ==
    [][\A r \in Requests, n \in Usernames, p \in Passwords :
          (/\ started' # started
           /\ \E u \in get_user_by_username(n) :
                 verify_password(p, u.hashed_password) /\ ~u.is_active
           /\ Login(r, n, p))
              => /\ req'[r].pc = "idle"
                 /\ last'.code = 400
                 /\ last'.detail =
                      "Account not active. Please verify your email address first."
                 /\ last'.access = NoJwt /\ last'.refresh = NoJwt
                 /\ UNCHANGED <<users, sessions>>]_vars

\* C5 witness: bob, inactive, has logged in with his password and got 400.
C5_Witness ==
    /\ last.op = "login" /\ last.name = "bob" /\ last.pw = "pw1"
    /\ last.code = 400
    /\ \E u \in users : u.username = "bob" /\ ~u.is_active

\* C6: once a Logout(t) has deactivated the session of t, no session of t is
\* active again, and a Refresh(t) started afterwards is answered 401 without
\* getting past the session lookup.
C6_LogoutThenRefreshFails ==
    /\ \A s \in sessions : s.refresh_token \in loggedOut => ~s.is_active
    /\ StopsAtLookup("logout")
    /\ (last.op = "refresh" /\ "logout" \in last.after) => last.code = 401

\* C6 witness: a Refresh of a logged-out token has been answered 401 by the
\* session check.
C6_Witness ==
    /\ last.op = "refresh"
    /\ "logout" \in last.after
    /\ last.code = 401
    /\ last.detail = "Refresh token has been invalidated"
    /\ \E s \in sessions : s.refresh_token = last.jwt /\ ~s.is_active

\* C7: a Logout that passes the gate with a refresh token that has no
\* session row, or an inactive one, completes at once with success and the
\* one message "Logout processed (token not found or already inactive).",
\* and changes no session and no user.
C7_LogoutNoOp ==
    [][\A r \in Requests, h \in Headers, t \in PresentedJwts :
          (/\ started' # started
           /\ GateError(h, now) = ""
           /\ \A s \in get_user_session_by_token(t) : ~s.is_active
           /\ Logout(r, h, t))
              => /\ req'[r].pc = "idle"
                 /\ last'.code = 200
                 /\ last'.detail =
                      "Logout processed (token not found or already inactive)."
                 /\ UNCHANGED <<users, sessions, loggedOut>>]_vars

\* C7 witness: a Logout of a token whose session was already inactive has
\* been answered with the no-op message.
C7_Witness ==
    /\ last.op = "logout"
    /\ last.code = 200
    /\ last.detail = "Logout processed (token not found or already inactive)."
    /\ \E s \in sessions : s.refresh_token = last.jwt /\ ~s.is_active

\* C8: VerifyEmail with the stored, unexpired verification token of an
\* unverified user goes on to its save; the save leaves that user's row with
\* is_active and is_email_verified true and the token and expiry cleared,
\* every other column as it was, leaves every other user and every session
\* unchanged, and the answer is 200 with that user.
C8_VerifyActivates ==
    [][\A r \in Requests :
          /\ \A t \in PresentedTokens :
                (/\ VerifyEmail(r, t)
                 /\ \E u \in users :
                       /\ u.email_verification_token = t
                       /\ ~u.is_email_verified
                       /\ u.email_verification_token_expires_at >= now)
                    => /\ req'[r].pc = "user_save"
                       /\ req'[r].pending = "ok"
                       /\ UNCHANGED <<users, sessions>>
          /\ (/\ req[r].op = "verify"
              /\ req[r].pending = "ok"
              /\ UserSave(r))
                 => \E u \in users :
                       /\ u.id = TheOne(req[r].user).id
                       /\ users' = (users \ {u}) \cup
                            {[u EXCEPT
                               !.is_active = TRUE,
                               !.is_email_verified = TRUE,
                               !.email_verification_token = NoToken,
                               !.email_verification_token_expires_at = NoExpiry]}
                       /\ sessions' = sessions
                       /\ last'.code = 200
                       /\ \A v \in last'.user :
                             v.id = u.id /\ v.is_active /\ v.is_email_verified
                       /\ last'.user # {}]_vars

\* C8 witness: bob's token 1 has been redeemed and bob is active, verified
\* and holds no token.
C8_Witness ==
    /\ last.op = "verify" /\ last.etok = 1 /\ last.code = 200
    /\ \E u \in users :
          /\ u.username = "bob"
          /\ u.is_active /\ u.is_email_verified
          /\ u.email_verification_token = NoToken
          /\ u.email_verification_token_expires_at = NoExpiry

\* C9: VerifyEmail with a token that no user stores (never issued, or
\* cleared when it was redeemed) is answered 400 "Invalid or expired
\* verification token ..." and changes nothing in the store.
C9_UnknownTokenRejected ==
    [][\A r \in Requests, t \in PresentedTokens :
          (/\ VerifyEmail(r, t)
           /\ \A u \in users : u.email_verification_token # t)
              => /\ req'[r].pc = "idle"
                 /\ last'.code = 400
                 /\ last'.detail = InvalidVerificationToken
                 /\ UNCHANGED store]_vars

\* C9 witness: token 1 was redeemed by bob, and presenting it again has been
\* answered 400.
C9_Witness ==
    /\ last.op = "verify" /\ last.etok = 1 /\ last.code = 400
    /\ \A u \in users : u.email_verification_token # 1
    /\ \E u \in users : u.username = "bob" /\ u.is_email_verified

\* C10: for both kinds of ephemeral token, an attempt with a stored token
\* whose expiry is in the past takes the expired branch; its save clears the
\* token and the expiry, changes neither is_active, is_email_verified nor
\* the password hash, and the attempt fails.
C10_ExpiredTokenFailsAndClears ==
    [][\A r \in Requests :
          /\ \A t \in PresentedTokens :
                (/\ VerifyEmail(r, t)
                 /\ \E u \in users :
                       /\ u.email_verification_token = t
                       /\ u.email_verification_token_expires_at < now)
                    => req'[r].pc = "user_save" /\ req'[r].pending = "expired"
          /\ \A t \in PresentedTokens, p \in Passwords, s \in Salts :
                (/\ ResetPassword(r, t, p, s)
                 /\ \E u \in users :
                       /\ u.password_reset_token = t
                       /\ u.password_reset_token_expires_at < now)
                    => req'[r].pc = "user_save" /\ req'[r].pending = "expired"
          /\ (req[r].pending = "expired" /\ UserSave(r))
                => /\ last'.code = IF req[r].op = "verify" THEN 400 ELSE 0
                   /\ last'.detail # "user"
                   /\ \A u \in users : \A v \in users' :
                         (u.id = TheOne(req[r].user).id /\ v.id = u.id)
                            => /\ v.is_active = u.is_active
                               /\ v.is_email_verified = u.is_email_verified
                               /\ v.hashed_password = u.hashed_password
                               /\ req[r].op = "verify" =>
                                    /\ v.email_verification_token = NoToken
                                    /\ v.email_verification_token_expires_at
                                         = NoExpiry
                               /\ req[r].op = "reset" =>
                                    /\ v.password_reset_token = NoToken
                                    /\ v.password_reset_token_expires_at
                                         = NoExpiry]_vars

\* C11: a Register whose username and email are in use by no user creates
\* exactly one user row, with is_active and is_email_verified false and a
\* verification token and expiry set, and answers success with that user.
C11_RegisterCreatesInactiveUser ==
    [][\A r \in Requests :
          (/\ req[r].pc = "register_create"
           /\ \A u \in users :
                 /\ u.username # TheOne(req[r].user).username
                 /\ u.email # TheOne(req[r].user).email
           /\ RegisterCreate(r))
              => \E u \in users' \ users :
                    /\ users' = users \cup {u}
                    /\ ~u.is_active /\ ~u.is_email_verified
                    /\ u.email_verification_token # NoToken
                    /\ u.email_verification_token_expires_at # NoExpiry
                    /\ last'.code \in {200, 201}
                    /\ last'.user = {u}]_vars

\* C12: a Register with a username that a user already has is answered 400
\* "Username already registered.", and one whose email a user already has is
\* answered 400 "Email already registered."; neither creates or changes a
\* user row, draws a token or gets as far as the email dispatch.
C12_DuplicateRegisterRejected ==
    [][\A r \in Requests :
          /\ \A n \in RegisterNames, e \in RegisterEmails :
                (/\ started' # started
                 /\ e # ""
                 /\ \E u \in users : u.username = n
                 /\ Register(r, n, e, "pw2"))
                    => /\ req'[r].pc = "idle"
                       /\ last'.code = 400
                       /\ last'.detail = "Username already registered."
                       /\ UNCHANGED store
          /\ \A s \in Salts :
                (/\ req[r].pc = "register_email"
                 /\ \E u \in users : u.email = TheOne(req[r].user).email
                 /\ RegisterCheckEmail(r, s))
                    => /\ req'[r].pc = "idle"
                       /\ last'.code = 400
                       /\ last'.detail = "Email already registered."
                       /\ UNCHANGED store]_vars

\* C12 witness: carol, a free username, has tried to register with bob's
\* address and got 400; bob's row is there.
C12_Witness ==
    /\ last.op = "register" /\ last.name = "carol"
    /\ last.code = 400
    /\ last.detail = "Email already registered."
    /\ \E u \in users : u.username = "bob" /\ u.email = "bob@x.com"
    /\ \A u \in users : u.username # "carol"

\* C14: is_active of a Session row only ever goes from true to false: no
\* step of any request, whatever copy of the row it holds, leaves a row that
\* was inactive with is_active = true.
C14_SessionActiveMonotonic ==
    [][\A s \in sessions : \A t \in sessions' :
          (s.id = t.id /\ ~s.is_active) => ~t.is_active]_vars

\* C14 witness: a session that a rotation deactivated has since been the
\* target of a Logout, and is inactive.
C14_Witness ==
    /\ last.op = "logout"
    /\ last.jwt \in rotated
    /\ \E s \in sessions : s.refresh_token = last.jwt /\ ~s.is_active
    /\ \E s \in sessions : s.is_active

\* The refresh chain of a token: the token a Login issued, from which the
\* token came by a sequence of completed rotations (P is the parent relation).
RECURSIVE RootIn(_, _)
RootIn(P, tok) ==
    IF \E e \in P : e[1] = tok
        THEN RootIn(P, (CHOOSE e \in P : e[1] = tok)[2])
        ELSE tok

\* The active sessions of S in the chain of tok.
ChainActive(P, S, tok) ==
    {s \in S : s.is_active /\ RootIn(P, s.refresh_token) = RootIn(P, tok)}

\* C15: after every step at most one session of each refresh chain is
\* active, and when a Refresh completes successfully exactly one session of
\* the chain of the token it returns is active.
C15_OneActivePerChain ==
    [][/\ \A s \in sessions' :
             Cardinality(ChainActive(parent', sessions', s.refresh_token)) <= 1
       /\ \A r \in Requests :
             (/\ req[r].op = "refresh"
              /\ req[r].pc = "cs_insert"
              /\ req'[r].pc = "idle"
              /\ last'.code = 200)
                 => Cardinality(ChainActive(parent', sessions',
                                            last'.refresh)) = 1]_vars

C17_GateRejectsWithoutValidBearer ==
    [][\A r \in Requests, h \in Headers, t \in PresentedJwts :
          (/\ started' # started
           /\ ~(/\ h.scheme = "Bearer"
                /\ h.credentials.sig = "ok"
                /\ h.credentials.exp > now)
           /\ Logout(r, h, t))
              => /\ req'[r].pc = "idle"
                 /\ last'.code \in {401, 403}
                 /\ UNCHANGED <<users, sessions, loggedOut>>]_vars

\* C17 witness: a Logout of an active session with an expired bearer token
\* has been rejected, and the session is still active.
C17_Witness ==
    /\ last.op = "logout"
    /\ last.code = 401
    /\ last.detail = "Access token has expired."
    /\ \E s \in sessions : s.refresh_token = last.jwt /\ s.is_active

\* C18: a request to Logout whose bearer token is a validly signed,
\* unexpired token of type "refresh" is rejected by the gate with 401.
C18_GateRejectsRefreshToken ==
    [][\A r \in Requests, h \in Headers, t \in PresentedJwts :
          (/\ started' # started
           /\ h.scheme = "Bearer"
           /\ h.credentials.sig = "ok"
           /\ h.credentials.exp > now
           /\ h.credentials.type = "refresh"
           /\ Logout(r, h, t))
              => /\ req'[r].pc = "idle"
                 /\ last'.code = 401
                 /\ UNCHANGED <<users, sessions>>]_vars

\* C19: a Refresh given a string that is no JWT, a token with a bad
\* signature, or a token whose type is not "refresh", is answered 401 in
\* its first step, before the session lookup, and changes nothing in the
\* store.
C19_RefreshRejectsNonRefreshToken ==
    [][\A r \in Requests, t \in PresentedJwts :
          (/\ started' # started
           /\ (t.sig # "ok" \/ t.type # "refresh")
           /\ Refresh(r, t))
              => /\ req'[r].pc = "idle"
                 /\ last'.code = 401
                 /\ UNCHANGED store]_vars

\* C19 witness: a validly signed, unexpired access token has been presented
\* to Refresh and answered 401 for its type.
C19_Witness ==
    /\ last.op = "refresh"
    /\ last.jwt.sig = "ok" /\ last.jwt.type = "access"
    /\ last.jwt.exp > now
    /\ last.code = 401
    /\ last.detail = "Invalid refresh token payload or type"

\* The session lookup of Refresh request r is about to run and no row of the
\* presented token is active and within its expires_at.
NoUsableRowAtLookup(r) ==
    /\ req[r].pc = "refresh_lookup"
    /\ req'[r] # req[r]
    /\ ~\E s \in sessions : /\ s.refresh_token = req[r].jwt
                            /\ s.is_active
                            /\ s.expires_at >= now

C21_RefreshTokensNeverReused ==
    [][\A r \in Requests :
          (req[r].pc = "cs_insert" /\ req'[r] # req[r])
              => /\ req[r].refresh \notin issued
                 /\ ~\E s \in sessions : s.refresh_token = req[r].refresh
                 /\ req[r].op = "refresh" => req[r].refresh # req[r].jwt
                 /\ last'.code = 200]_vars

\* C22: the email dispatch that follows the write of a Register or of a
\* ResendVerification fails (it is the step after User.create / user.save);
\* the operation nevertheless returns success, with the row and its token
\* persisted.
C22_DispatchFailureDoesNotFail ==
    [][\A r \in Requests :
          (/\ req'[r] # req[r]
           /\ \/ req[r].pc = "register_create" /\ users' # users
              \/ req[r].pc = "user_save" /\ req[r].op = "resend")
              => /\ \E u \in users' : u.email_verification_token = req[r].etok
                 /\ last'.code = 200]_vars

\* C23: a Refresh with a validly signed refresh token whose exp has passed
\* is answered 401 with an expired-token message, and afterwards the
\* Session row of that token is inactive.
C23_ExpiredRefreshDeactivates ==
    [][\A r \in Requests, t \in PresentedJwts :
          (/\ started' # started
           /\ t.sig = "ok" /\ t.type = "refresh" /\ t.exp <= now
           /\ \E s \in sessions : s.refresh_token = t
           /\ Refresh(r, t))
              => /\ req'[r].pc = "idle"
                 /\ last'.code = 401
                 /\ last'.detail \in
                      {"Refresh token signature has expired (JWT lib check)",
                       "Refresh token has expired"}
                 /\ \A s \in sessions' :
                       s.refresh_token = t => ~s.is_active]_vars

C25_LogoutByNonOwner ==
    [][\A r \in Requests :
          /\ (/\ req[r].pc = "logout_get_user"
              /\ req'[r] # req[r])
                => /\ req'[r].pc = "logout_deactivate"
                   /\ UNCHANGED store
          /\ (/\ req[r].pc = "logout_deactivate"
              /\ req'[r] # req[r])
                => /\ req'[r].pc = "idle"
                   /\ last'.code = 200
                   /\ last'.detail = "Successfully logged out."
                   /\ \A s \in sessions' :
                         s.refresh_token = req[r].jwt => ~s.is_active
                   /\ \A s \in sessions :
                         s.refresh_token # req[r].jwt => s \in sessions'
                   /\ {s.id : s \in sessions'} = {s.id : s \in sessions}
                   /\ users' = users]_vars

\* C25 witness: bob's access token has logged out alice's active session;
\* bob's own session is still active.
C25_Witness ==
    /\ last.op = "logout"
    /\ last.code = 200
    /\ last.detail = "Successfully logged out."
    /\ last.name = "bob"
    /\ \E s \in sessions :
          s.refresh_token = last.jwt /\ s.user_id = 1 /\ ~s.is_active
    /\ \E s \in sessions : s.user_id = 2 /\ s.is_active

\* C26: a Logout whose bearer token is an access token handed out by Login
\* or Refresh and not yet at its exp is not rejected by the gate, whatever
\* the session table holds (also when the session issued with the token is
\* inactive); the step that runs the gate changes no Session and no User
\* row.
C26_GateIgnoresSessions ==
    [][\A r \in Requests, h \in Headers, t \in PresentedJwts :
          (/\ started' # started
           /\ h.scheme = "Bearer"
           /\ h.credentials \in issued
           /\ h.credentials.type = "access"
           /\ h.credentials.exp > now
           /\ Logout(r, h, t))
              => /\ \/ req'[r].pc = "logout_get_user"
                    \/ req'[r].pc = "idle" /\ last'.code = 200
                 /\ UNCHANGED <<users, sessions>>]_vars

\* C26 witness: an access token has passed the gate of a Logout although
\* no session of its user is active any more.
C26_Witness ==
    /\ last.op = "logout"
    /\ last.code = 200
    /\ last.bearer.type = "access"
    /\ last.bearer \in issued
    /\ \E s \in sessions : s.user_id = last.bearer.user_id
    /\ \A s \in sessions : s.user_id = last.bearer.user_id => ~s.is_active

\* C27: a RequestPasswordReset for the email of a user with is_active =
\* true reports true and leaves on that user the freshly drawn reset token
\* with an expiry after now.
C27_ResetRequestStoresToken ==
    [][\A r \in Requests, e \in Emails :
          (/\ started' # started
           /\ \E u \in users : u.email = e /\ u.is_active
           /\ RequestPasswordReset(r, e))
              => /\ last'.detail = "True"
                 /\ \E u \in users' :
                       /\ u.email = e
                       /\ u.password_reset_token = nextToken
                       /\ u.password_reset_token_expires_at > now]_vars

\* C28: a RequestPasswordReset for an email that no user has, or whose
\* user has is_active = false, returns false at once and changes nothing:
\* no reset token is stored and no token is drawn for an email.
C28_ResetRequestNoOp ==
    [][\A r \in Requests, e \in Emails :
          (/\ started' # started
           /\ ~\E u \in users : u.email = e /\ u.is_active
           /\ RequestPasswordReset(r, e))
              => /\ req'[r].pc = "idle"
                 /\ last'.detail = "False"
                 /\ UNCHANGED store]_vars

\* C28 witness: a RequestPasswordReset for the inactive bob has returned
\* false, and bob holds no reset token.
C28_Witness ==
    /\ last.op = "request_reset"
    /\ last.detail = "False"
    /\ \E u \in users : /\ u.email = last.name
                        /\ ~u.is_active
                        /\ u.password_reset_token = NoToken

\* C29: the save of a ResendVerification leaves its new token on the user
\* and is_active = false; a ResendVerification for an email without user or
\* with a verified user returns false and changes nothing; a VerifyEmail
\* with a token that a resend has replaced is answered 400 and changes
\* nothing; a VerifyEmail with the stored, unexpired token of a resend goes
\* on to the save that activates the user.
C29_ResendReplacesToken ==
    [][\A r \in Requests :
          /\ (/\ req[r].op = "resend"
              /\ req[r].pc = "user_save"
              /\ req'[r] # req[r])
                => \A u \in users' :
                      u.id = TheOne(req[r].user).id
                         => /\ u.email_verification_token = req[r].etok
                            /\ ~u.is_active
          /\ \A e \in Emails :
                (/\ started' # started
                 /\ ~\E u \in users : u.email = e /\ ~u.is_email_verified
                 /\ ResendVerification(r, e))
                   => /\ req'[r].pc = "idle"
                      /\ last'.detail = "False"
                      /\ UNCHANGED store
          /\ \A t \in PresentedTokens :
                /\ (/\ started' # started
                    /\ \E p \in resent : p[1] = t
                    /\ VerifyEmail(r, t))
                      => /\ req'[r].pc = "idle"
                         /\ last'.code = 400
                         /\ UNCHANGED store
                /\ (/\ started' # started
                    /\ \E p \in resent : p[2] = t
                    /\ \E u \in users :
                          /\ u.email_verification_token = t
                          /\ u.email_verification_token_expires_at >= now
                    /\ VerifyEmail(r, t))
                      => /\ req'[r].pc = "user_save"
                         /\ \E u \in req'[r].user :
                               u.is_active /\ u.is_email_verified
                         /\ "is_active" \in req'[r].fields]_vars

\* C32: a deactivation step of Refresh or Logout on a row that is active
\* changes that row's is_active to false and nothing else; on a row that is
\* already inactive (the request read it before another one deactivated it)
\* or gone, it leaves the session table as it is.
C32_DeactivateIdempotent ==
    [][\A r \in Requests :
          (/\ req[r].pc \in {"refresh_deactivate", "logout_deactivate"}
           /\ req'[r] # req[r])
              => LET id == TheOne(req[r].sess).id IN
                 /\ (\A s \in sessions : s.id = id => ~s.is_active)
                       => sessions' = sessions
                 /\ \A s \in sessions :
                       (s.id = id /\ s.is_active)
                          => sessions' = (sessions \ {s})
                                \cup {[s EXCEPT !.is_active = FALSE]}]_vars

\* C32 witness: two Refresh requests of the same token have both run their
\* deactivation of its row.
C32_Witness ==
    /\ req["r1"].op = "refresh" /\ req["r2"].op = "refresh"
    /\ req["r1"].jwt = req["r2"].jwt
    /\ req["r1"].pc \in {"cs_get_user", "cs_insert"}
    /\ req["r2"].pc \in {"cs_get_user", "cs_insert"}
    /\ \E s \in sessions : s.refresh_token = req["r1"].jwt /\ ~s.is_active

\* C33: deactivate_all(user_id) leaves no session of that user active,
\* returns the number of that user's rows that were active before the call
\* (0 when none was), and changes no row of another user and no user.
C33_DeactivateAllCounts ==
    [][\A r \in Requests, id \in 1..2 :
          (/\ started' # started
           /\ DeactivateAll(r, id))
              => /\ \A s \in sessions' : s.user_id = id => ~s.is_active
                 /\ Cardinality(last'.sess) =
                      Cardinality({s \in sessions :
                                      s.user_id = id /\ s.is_active})
                 /\ \A s \in sessions : s.user_id # id => s \in sessions'
                 /\ {s.id : s \in sessions'} = {s.id : s \in sessions}
                 /\ users' = users]_vars

\* C33 witness: a second deactivate_all for a user whose sessions are all
\* inactive has returned 0, and the other user's session is still active.
C33_Witness ==
    /\ last.op = "deactivate_all"
    /\ Cardinality(last.sess) = 0
    /\ \E s \in sessions : s.user_id = last.etok
    /\ \A s \in sessions : s.user_id = last.etok => ~s.is_active
    /\ \E s \in sessions : s.user_id # last.etok /\ s.is_active

\* C34: once a Login or a Refresh of a user has been cut off, a Login of
\* that user that has passed the credential and is_active checks, and
\* whose user row is still there, completes its insert with 200 and a token
\* pair whose refresh token is the key of an active session.
C34_LoginAfterAbort ==
    [][\A r \in Requests :
          (/\ req[r].op = "login"
           /\ req[r].pc = "cs_insert"
           /\ TheOne(req[r].user).id \in aborted
           /\ get_user_by_id(TheOne(req[r].user).id) # {}
           /\ CreateSessionInsert(r))
              => /\ last'.code = 200
                 /\ \E s \in sessions' :
                       /\ s.refresh_token = last'.refresh
                       /\ s.is_active]_vars

\* C35: a step in which a Register ends with an error (400 or 500) leaves
\* the user table as it was: that request has persisted no row.
C35_RegisterAllOrNothing ==
    [][\A r \in Requests :
          (/\ req[r].op = "register"
           /\ req'[r].pc = "idle"
           /\ last'.op = "register"
           /\ last'.code # 200)
              => users' = users]_vars

\* C36: the save of a VerifyEmail or of a ResendVerification never leaves
\* the user it writes with is_email_verified = true and is_active = false,
\* and a VerifyEmail that answers 200 without a save has found a user who
\* is active.
C36_VerifiedImpliesActive ==
    [][\A r \in Requests :
          /\ (/\ req[r].op \in {"verify", "resend"}
              /\ req[r].pc = "user_save"
              /\ req'[r] # req[r])
                => \A u \in users' :
                      (u.id = TheOne(req[r].user).id /\ u.is_email_verified)
                         => u.is_active
          /\ \A t \in PresentedTokens :
                (/\ started' # started
                 /\ \E u \in users : /\ u.email_verification_token = t
                                     /\ u.is_email_verified
                 /\ VerifyEmail(r, t))
                   => \E u \in users : /\ u.email_verification_token = t
                                       /\ u.is_active]_vars

\* C37: when a Logout has found the session of refresh token t active and
\* deactivated it, no session that a Refresh created by rotating t is
\* active.
C37_LogoutNotUndone ==
    \A p \in parent :
        p[2] \in loggedOut
            => ~\E s \in sessions : s.refresh_token = p[1] /\ s.is_active

\* C39: after every step no two user rows share a username or an email;
\* the create step of a Register whose username or email a row already
\* holds (another Register got there first) adds no row and ends in an
\* error.
C39_UsernamesEmailsUnique ==
    [][/\ \A u, v \in users' :
             (u.username = v.username \/ u.email = v.email) => u = v
       /\ \A r \in Requests :
             (/\ req[r].pc = "register_create"
              /\ req'[r] # req[r]
              /\ \E u \in users :
                    \/ u.username = TheOne(req[r].user).username
                    \/ u.email = TheOne(req[r].user).email)
                => /\ users' = users
                   /\ last'.code = 500]_vars

\* C39 witness: of two Registers of one username that both passed the
\* exists-checks, the second has ended in an error at its create; the row
\* of that username is the one the first created.
C39_Witness ==
    /\ last.op = "register"
    /\ last.code = 500
    /\ last.etok # NoToken
    /\ \E u \in users : /\ u.username = last.name
                        /\ u.email_verification_token # last.etok
    /\ ~\E u \in users : u.email_verification_token = last.etok

\* A Refresh with an issued refresh token t whose user has no row starts,
\* or runs its session lookup, and is not rejected with the message for a
\* missing session row.
RefreshOfDeletedUser(r, t) ==
    /\ t \in issued
    /\ t.type = "refresh"
    /\ get_user_by_id(t.user_id) = {}
    /\ \/ started' # started /\ Refresh(r, t)
       \/ req[r].pc = "refresh_lookup" /\ req[r].jwt = t /\ req'[r] # req[r]
    /\ ~(/\ req'[r].pc = "idle"
         /\ last'.code = 401
         /\ last'.detail = "Refresh token not found or already used")

====
